---- MODULE Spec2Model ----
(***************************************************************************)
(* Model of panpan-image-generator-mcp-server.js: the response resolver of *)
(* generateImage and the bounded-concurrency batch executors               *)
(* generateImageBatch / generateImageGlmBatch.                              *)
(*                                                                         *)
(* JavaScript runs the workers of a batch on one thread: a worker runs     *)
(* without interruption from one await to the next.  Every action below is *)
(* one such uninterrupted segment.                                         *)
(***************************************************************************)
EXTENDS Integers, Sequences, FiniteSets, TLC

\* ---------------------------------------------------------------- bounds
\* Longest batch the model submits.
MaxJobs == 3
\* Largest concurrency argument the model passes.
MaxConcurrency == 2
\* Longest image payload, in bytes.
MaxBytes == 2
\* Longest message.images list of a modelled response.
MaxImages == 2

\* ------------------------------------------------------------ JS values
\* undefined (a field that is absent)
Absent == "<undefined>"
\* !x for the string-or-undefined values of the model
Truthy(s) == s \notin {Absent, ""}

Min(a, b) == IF a < b THEN a ELSE b

\* ---------------------------------------------------------------- base64
\* A base64 string is a sequence of characters, each the index 0..63 of a
\* character of the alphabet, or Pad for '='.
Pad == 64

\* Buffer#toString('base64'): three bytes make four characters, the tail is padded.
RECURSIVE Base64Encode(_)
Base64Encode(b) ==
  IF Len(b) = 0 THEN <<>>
  ELSE IF Len(b) = 1 THEN <<b[1] \div 4, (b[1] % 4) * 16, Pad, Pad>>
  ELSE IF Len(b) = 2
    THEN <<b[1] \div 4, (b[1] % 4) * 16 + (b[2] \div 16), (b[2] % 16) * 4, Pad>>
  ELSE <<b[1] \div 4, (b[1] % 4) * 16 + (b[2] \div 16),
         (b[2] % 16) * 4 + (b[3] \div 64), b[3] % 64>>
       \o Base64Encode(SubSeq(b, 4, Len(b)))

\* The characters of a base64 string before its first '='.
RECURSIVE BeforePad(_)
BeforePad(s) ==
  IF Len(s) = 0 \/ s[1] = Pad THEN <<>> ELSE <<s[1]>> \o BeforePad(Tail(s))

RECURSIVE DecodeSextets(_)
DecodeSextets(x) ==
  IF Len(x) <= 1 THEN <<>>
  ELSE IF Len(x) = 2 THEN <<x[1] * 4 + (x[2] \div 16)>>
  ELSE IF Len(x) = 3
    THEN <<x[1] * 4 + (x[2] \div 16), (x[2] % 16) * 16 + (x[3] \div 4)>>
  ELSE <<x[1] * 4 + (x[2] \div 16), (x[2] % 16) * 16 + (x[3] \div 4),
         (x[3] % 4) * 64 + x[4]>>
       \o DecodeSextets(SubSeq(x, 5, Len(x)))

\* Buffer.from(s, 'base64')
Base64Decode(s) == DecodeSextets(BeforePad(s))

\* ------------------------------------------------------- response shapes
\* Text is a sequence of tokens.  A token is a run of plain text, an
\* http(s) URL that ends in an image extension, or a data-URL.
PlainTok == [t |-> "plain", url |-> "", payload |-> <<>>]
UrlTok(u) == [t |-> "imgurl", url |-> u, payload |-> <<>>]
DataTok(p) == [t |-> "dataurl", url |-> "", payload |-> p]

\* The url of an entry of message.images: a data-URL or an http(s) URL.
DataUrl(mime, p) == [scheme |-> "data", mime |-> mime, payload |-> p, href |-> ""]
HttpUrl(u) == [scheme |-> "https", mime |-> "", payload |-> <<>>, href |-> u]

ImageEntry(type, url) == [type |-> type, url |-> url]

\* A part of an array content.
TextPart(txt) == [type |-> "text", text |-> txt, inline |-> FALSE, data |-> <<>>]
ImagePart(d) == [type |-> "image", text |-> <<>>, inline |-> TRUE, data |-> d]

\* A content value: absent, a string or an array of parts.
NoContent == [kind |-> "absent", text |-> <<>>, parts |-> <<>>]
StringContent(txt) == [kind |-> "string", text |-> txt, parts |-> <<>>]
ArrayContent(ps) == [kind |-> "array", text |-> <<>>, parts |-> ps]

\* One line of an event stream.
\*   data: the line starts with 'data:';  done: its payload is [DONE];
\*   valid: its payload parses as JSON;  choice: the fragment has choices[0].
StreamLine(data, done, valid, choice, delta, message) ==
  [data |-> data, done |-> done, valid |-> valid, choice |-> choice,
   delta |-> delta, message |-> message]

\* A response text.  parses: JSON.parse(responseText) succeeds; then
\* hasMessage, hasImages, images and content describe choices[0].message.
\* Otherwise lines are the non-blank lines of the text.
JsonResponse(hasMessage, hasImages, images, content) ==
  [parses |-> TRUE, hasMessage |-> hasMessage, hasImages |-> hasImages,
   images |-> images, content |-> content, lines |-> <<>>]
StreamResponse(lines) ==
  [parses |-> FALSE, hasMessage |-> FALSE, hasImages |-> FALSE,
   images |-> <<>>, content |-> NoContent, lines |-> lines]

\* ------------------------------------------------- generateImage: resolver
\* The three locals of generateImage (lines 105-107).  null is the empty
\* string / the empty sequence; consulted is a record of the branches taken.
ResolverLocals ==
  [imageUrl |-> "", fullContent |-> <<>>, imageBase64 |-> <<>>, consulted |-> {}]

Note(acc, what) == [acc EXCEPT !.consulted = @ \cup {what}]

\* dataUrl.match(/^data:image\/[^;]+;base64,(.+)$/)
DataUrlMatches(u) ==
  /\ u.scheme = "data"
  /\ u.mime \in {"image/png", "image/jpeg"}
  /\ Len(u.payload) > 0

\* img.type === 'image_url' && img.image_url && img.image_url.url
IsImageUrlEntry(img) == img.type = "image_url" /\ img.url.scheme # "none"

\* for (const img of message.images): every matching entry is assigned in turn.
RECURSIVE ScanImages(_, _)
ScanImages(images, acc) ==
  IF images = <<>> THEN acc
  ELSE LET img == Head(images)
           acc1 == IF IsImageUrlEntry(img) /\ DataUrlMatches(img.url)
                     THEN [acc EXCEPT !.imageBase64 = img.url.payload]
                     ELSE acc
       IN ScanImages(Tail(images), acc1)

\* for (const part of messageContent): text parts are appended to
\* fullContent, an image part with inline_data is assigned to imageBase64.
RECURSIVE ScanParts(_, _)
ScanParts(parts, acc) ==
  IF parts = <<>> THEN acc
  ELSE LET p == Head(parts)
           acc1 == IF p.type = "text"
                     THEN [acc EXCEPT !.fullContent = @ \o p.text]
                     ELSE IF p.type = "image" /\ p.inline
                       THEN [acc EXCEPT !.imageBase64 = p.data]
                       ELSE acc
       IN ScanParts(Tail(parts), acc1)

\* The guard of the content-array scan, without its test of imageBase64
\* (the mutant of PartsScanned).
PartsScannedAlways(acc, content) == content.kind = "array"

\* !imageBase64 && Array.isArray(messageContent)
PartsScanned(acc, content) == acc.imageBase64 = <<>> /\ content.kind = "array"

\* The try block of lines 110-145, for a text that parses as JSON.
ResolveJson(r, acc) ==
  IF ~r.hasMessage THEN acc
  ELSE LET a1 == IF r.hasImages
                   THEN ScanImages(r.images, Note(acc, "images"))
                   ELSE acc
       IN IF PartsScanned(a1, r.content)
            THEN ScanParts(r.content.parts, Note(a1, "parts"))
            ELSE IF r.content.kind = "string"
              THEN [Note(a1, "string") EXCEPT !.fullContent = r.content.text]
              ELSE a1

\* if (content) { array: scan the parts; string: append } of lines 166-197
ScanStreamContent(content, acc) ==
  IF content.kind = "array" THEN ScanParts(content.parts, acc)
  ELSE IF content.kind = "string" THEN [acc EXCEPT !.fullContent = @ \o content.text]
  ELSE acc

\* A loop body that starts over when a data frame does not parse (a mutant
\* of ScanLine).
ScanLineResettingOnBadFrame(line, acc) ==
  IF line.data /\ ~line.done /\ ~line.valid
    THEN [acc EXCEPT !.fullContent = <<>>, !.imageBase64 = <<>>]
  ELSE IF ~line.data \/ line.done \/ ~line.choice THEN acc
  ELSE ScanStreamContent(line.message, ScanStreamContent(line.delta, acc))

\* A loop body that reads every line as a data frame (the mutant of ScanLine).
ScanLineWithoutPrefixTest(line, acc) ==
  IF line.done \/ ~line.valid \/ ~line.choice THEN acc
  ELSE ScanStreamContent(line.message, ScanStreamContent(line.delta, acc))

\* The body of the loop over the lines (lines 153-204).
ScanLine(line, acc) ==
  IF ~line.data \/ line.done \/ ~line.valid \/ ~line.choice THEN acc
  ELSE ScanStreamContent(line.message, ScanStreamContent(line.delta, acc))

RECURSIVE ScanLines(_, _)
ScanLines(lines, acc) ==
  IF lines = <<>> THEN acc
  ELSE ScanLines(Tail(lines), ScanLine(Head(lines), acc))

\* fullContent.match(/https?:\/\/[^\s\)]+\.(jpg|jpeg|png|gif|webp)/i): the
\* first URL of the text, "" when there is none.
RECURSIVE FirstImageUrl(_)
FirstImageUrl(text) ==
  IF text = <<>> THEN ""
  ELSE IF Head(text).t = "imgurl" THEN Head(text).url
  ELSE FirstImageUrl(Tail(text))

\* fullContent.match(/data:image\/[^;]+;base64,([A-Za-z0-9+/=]+)/): the
\* payload of the first data-URL of the text, <<>> when there is none.
RECURSIVE FirstDataUrl(_)
FirstDataUrl(text) ==
  IF text = <<>> THEN <<>>
  ELSE IF Head(text).t = "dataurl" /\ Len(Head(text).payload) > 0
    THEN Head(text).payload
  ELSE FirstDataUrl(Tail(text))

\* A scan whose URL pattern takes any text for a link (the mutant of TextScan).
TextScanLoosePattern(acc) ==
  IF acc.imageUrl = "" /\ acc.imageBase64 = <<>> /\ acc.fullContent # <<>>
    THEN [acc EXCEPT !.imageUrl = "https://text", !.consulted = @ \cup {"textscan"}]
    ELSE acc

\* Lines 211-223: the scan of the accumulated text.
TextScan(acc) ==
  IF acc.imageUrl = "" /\ acc.imageBase64 = <<>>
    THEN LET a1 == Note(acc, "textscan")
             u == FirstImageUrl(a1.fullContent)
             a2 == IF u # "" THEN [a1 EXCEPT !.imageUrl = u] ELSE a1
             d == FirstDataUrl(a2.fullContent)
         IN IF d # <<>> THEN [a2 EXCEPT !.imageBase64 = d] ELSE a2
    ELSE acc

\* Lines 105-223: the locals after the response text was examined.
Examine(r) ==
  TextScan(IF r.parses
             THEN ResolveJson(r, ResolverLocals)
             ELSE ScanLines(r.lines, Note(ResolverLocals, "stream")))

\* A resolution that tests imageUrl before imageBase64 (the mutant of
\* ResolveImage).
ResolveImagePreferringUrl(r) ==
  LET acc == Examine(r)
  IN IF acc.imageUrl # ""
       THEN [kind |-> "fetch", bytes |-> <<>>, url |-> acc.imageUrl,
             consulted |-> acc.consulted \cup {"fetch"}]
       ELSE IF acc.imageBase64 # <<>>
         THEN [kind |-> "bytes", bytes |-> Base64Decode(acc.imageBase64),
               url |-> "", consulted |-> acc.consulted]
         ELSE [kind |-> "none", bytes |-> <<>>, url |-> "",
               consulted |-> acc.consulted]

\* Lines 225-241: what the examined response resolves to.
\*   kind "bytes": the image, decoded from base64;
\*   kind "fetch": the image is to be downloaded from url;
\*   kind "none":  the no-image error is thrown.
ResolveImage(r) ==
  LET acc == Examine(r)
  IN IF acc.imageBase64 # <<>>
       THEN [kind |-> "bytes", bytes |-> Base64Decode(acc.imageBase64),
             url |-> "", consulted |-> acc.consulted]
       ELSE IF acc.imageUrl # ""
         THEN [kind |-> "fetch", bytes |-> <<>>, url |-> acc.imageUrl,
               consulted |-> acc.consulted \cup {"fetch"}]
         ELSE [kind |-> "none", bytes |-> <<>>, url |-> "",
               consulted |-> acc.consulted]

\* ------------------------------------------------------------------ state
VARIABLES
  status,         \* the batch call: "idle", "running", "returned", "raised"
  batchRequests,  \* its first argument: [isArray, items]
  concurrency,    \* its second argument
  provider,       \* "chat": generateImageBatch, "glm": generateImageGlmBatch
  queue,          \* const queue: the indices of the entries not taken yet
  results,        \* const results
  workers,        \* const workers: where each worker's async function stands
  claimed,        \* per entry, how often queue.shift() returned it
  netCalls,       \* per entry, the requests sent to the provider for it
  files,          \* per entry, what fs.writeFile wrote for it
  responseText,   \* the response text handed to the resolver
  resolved,       \* what the resolver made of it
  job             \* one tool call of a single generation or edit

vars == <<status, batchRequests, concurrency, provider, queue, results, workers,
          claimed, netCalls, files, responseText, resolved, job>>

batchVars == <<status, batchRequests, concurrency, provider, queue, results,
               workers, claimed, netCalls, files>>

\* --------------------------------------------------------- batch: inputs
\* concurrency = 3 (default parameter) and concurrency || 3 (tool handler)
DefaultConcurrency == 3

\* An entry of the requests list: null, or an object whose prompt is absent,
\* empty or given.
NullEntry == [kind |-> "null", prompt |-> Absent]
ObjectEntry(prompt) == [kind |-> "object", prompt |-> prompt]
Entries == {NullEntry, ObjectEntry(Absent), ObjectEntry(""), ObjectEntry("cat")}

ArrayArg(items) == [isArray |-> TRUE, items |-> items]
\* A first argument that is no array (an object, a string, a number)
NotArrayArg == [isArray |-> FALSE, items |-> <<>>]

RequestArgs ==
  {NotArrayArg} \cup {ArrayArg(items) : items \in UNION {[1..n -> Entries] : n \in 0..MaxJobs}}

ConcurrencyArgs == -1..MaxConcurrency

\* ------------------------------------------------------- batch: results
NoError == [msg |-> Absent, status |-> 0]
Error(msg, code) == [msg |-> msg, status |-> code]

\* results.push({ success: false, error: '缺少 prompt', prompt }) (both batchers)
MissingPromptResult(j, e) ==
  [id |-> j, success |-> FALSE, error |-> Error("missing prompt", 0),
   prompt |-> e.prompt, model |-> Absent, filePath |-> Absent]

\* The object returned by the catch block of generateImage / generateImageGlm.
FailureResult(prov, j, e, err) ==
  [id |-> j, success |-> FALSE, error |-> err, prompt |-> e.prompt,
   model |-> IF prov = "glm" THEN "glm-image" ELSE Absent, filePath |-> Absent]

\* The object returned at the end of generateImage / generateImageGlm.
SuccessResult(prov, j, e) ==
  [id |-> j, success |-> TRUE, error |-> NoError, prompt |-> e.prompt,
   model |-> IF prov = "glm" THEN "glm-image" ELSE Absent, filePath |-> "saved"]

\* A push that loses the failing results (the mutant of PushResult).
PushResultDroppingFailures(rs, r) == IF r.success THEN Append(rs, r) ELSE rs

\* results.push(result)
PushResult(rs, r) == Append(rs, r)

\* -------------------------------------------------------- batch: workers
Settled(pc) == [pc |-> pc, job |-> 0, buf |-> <<>>, url |-> ""]
Threw(j) == [pc |-> "threw", job |-> j, buf |-> <<>>, url |-> ""]
Awaiting(pc, j, buf, url) == [pc |-> pc, job |-> j, buf |-> buf, url |-> url]

\* queue.shift(): the entry returned ...
QueueHead(q) == Head(q)

\* A removal at the wrong end of the queue (the mutant of QueueShift).
QueuePop(q) == SubSeq(q, 1, Len(q) - 1)

\* ... and the queue it leaves.
QueueShift(q) == Tail(q)

\* A worker that gives up after a failed job (the mutant of KeepsLooping).
StopsOnFailure(r) == r.success

\* After results.push the worker goes back to while (queue.length),
\* whatever the result was.
KeepsLooping(r) == TRUE

\* The worker's loop from while (queue.length) to its next await, or to its
\* end.  S is [queue, results, claimed, netCalls, workers]; items are the
\* entries of the batch.
RECURSIVE WorkerLoop(_, _, _)
WorkerLoop(S, w, items) ==
  IF S.queue = <<>> THEN [S EXCEPT !.workers[w] = Settled("done")]
  ELSE LET j == QueueHead(S.queue)
           S1 == [S EXCEPT !.queue = QueueShift(S.queue), !.claimed[j] = @ + 1]
       IN IF items[j].kind = "null"
            \* const { prompt, saveToFilePath } = null: a TypeError outside the try
            THEN [S1 EXCEPT !.workers[w] = Threw(j)]
            ELSE IF ~Truthy(items[j].prompt)
              THEN WorkerLoop([S1 EXCEPT !.results =
                                 PushResult(@, MissingPromptResult(j, items[j]))],
                              w, items)
              \* generateImage runs up to its await fetch(...)
              ELSE [S1 EXCEPT !.netCalls[j] = @ + 1,
                              !.workers[w] = Awaiting("call", j, <<>>, "")]

\* A pool that is one worker short (a mutant of PoolSize).
PoolSizeOneShort(c, n) == IF Min(c, n) < 1 THEN 0 ELSE Min(c, n) - 1

\* A pool of one worker per job (a mutant of PoolSize).
PoolSizePerJob(c, n) == n

\* A pool of a single worker (a mutant of PoolSize).
PoolSizeSingle(c, n) == Min(1, n)

\* Array.from({ length: Math.min(concurrency, queue.length) }, ...): a
\* negative length makes an empty array.
PoolSize(c, n) == IF Min(c, n) < 0 THEN 0 ELSE Min(c, n)

\* Array.from calls the async function of worker 1, then of worker 2, ...:
\* each runs to its first await before the next one starts.
RECURSIVE StartWorkers(_, _, _, _)
StartWorkers(S, w, n, items) ==
  IF w > n THEN S
  ELSE StartWorkers(
         WorkerLoop([S EXCEPT !.workers = Append(@, Settled("new"))], w, items),
         w + 1, n, items)

\* Promise.all(workers) is fulfilled when every worker is.
Joined(ws) == \A w \in 1..Len(ws) : ws[w].pc = "done"

\* await Promise.all(workers); return results: rejected with the first
\* worker that throws, fulfilled when every worker has ended.
Settle(st, ws) ==
  IF st = "raised" \/ \E w \in 1..Len(ws) : ws[w].pc = "threw" THEN "raised"
  ELSE IF Joined(ws) THEN "returned"
  ELSE "running"

\* The end of a job on worker w with result r: push, then loop.
FinishJob(S, w, r, items) ==
  LET S1 == [S EXCEPT !.results = PushResult(@, r)]
  IN IF KeepsLooping(r) THEN WorkerLoop(S1, w, items)
     ELSE [S1 EXCEPT !.workers[w] = Settled("done")]

Shared == [queue |-> queue, results |-> results, claimed |-> claimed,
           netCalls |-> netCalls, workers |-> workers]

Publish(S) ==
  /\ queue' = S.queue
  /\ results' = S.results
  /\ claimed' = S.claimed
  /\ netCalls' = S.netCalls
  /\ workers' = S.workers
  /\ status' = Settle(status, S.workers)

\* -------------------------------------------------- the modelled responses
ByteValues == {7, 200}
Bytes == UNION {[1..n -> ByteValues] : n \in 1..MaxBytes}
Payloads == {Base64Encode(b) : b \in Bytes}

ImageLink == "https://cdn.example/a.png"
\* What a GET of ImageLink returns.
RemoteImage(u) == IF u = ImageLink THEN <<200, 7>> ELSE <<>>

NoUrl == [scheme |-> "none", mime |-> "", payload |-> <<>>, href |-> ""]
ImageEntries ==
  {ImageEntry("image_url", DataUrl("image/png", p)) : p \in Payloads \cup {<<>>}}
  \cup {ImageEntry("image_url", HttpUrl(ImageLink)),
        ImageEntry("image_url", NoUrl),
        ImageEntry("image_url", DataUrl("text/plain", Base64Encode(<<7>>))),
        ImageEntry("text", DataUrl("image/png", Base64Encode(<<7>>)))}

ImageLists == UNION {[1..n -> ImageEntries] : n \in 0..MaxImages}

Contents ==
  {NoContent,
   StringContent(<<PlainTok>>),
   StringContent(<<PlainTok, UrlTok(ImageLink)>>),
   StringContent(<<DataTok(Base64Encode(<<200>>)), PlainTok>>),
   StringContent(<<UrlTok(ImageLink), DataTok(Base64Encode(<<200>>))>>),
   ArrayContent(<<TextPart(<<PlainTok>>), ImagePart(Base64Encode(<<200, 200>>))>>),
   ArrayContent(<<ImagePart(Base64Encode(<<200>>)), ImagePart(Base64Encode(<<7, 200>>))>>),
   ArrayContent(<<TextPart(<<UrlTok(ImageLink)>>), TextPart(<<PlainTok>>)>>)}

StreamLines ==
  {StreamLine(FALSE, FALSE, FALSE, FALSE, NoContent, NoContent),
   StreamLine(TRUE, TRUE, FALSE, FALSE, NoContent, NoContent),
   StreamLine(TRUE, FALSE, FALSE, FALSE, NoContent, NoContent),
   StreamLine(TRUE, FALSE, TRUE, FALSE, NoContent, NoContent),
   \* a JSON fragment on a line that lacks the data: prefix
   StreamLine(FALSE, FALSE, TRUE, TRUE,
              ArrayContent(<<TextPart(<<PlainTok>>), ImagePart(Base64Encode(<<7>>))>>),
              NoContent)}
  \cup {StreamLine(TRUE, FALSE, TRUE, TRUE, c, NoContent) : c \in Contents}
  \cup {StreamLine(TRUE, FALSE, TRUE, TRUE, NoContent, c) : c \in Contents \ {NoContent}}

\* Longest event stream, in lines.
MaxLines == 2
Streams == UNION {[1..n -> StreamLines] : n \in 0..MaxLines}

Responses ==
  {JsonResponse(TRUE, TRUE, imgs, c) : imgs \in ImageLists, c \in Contents}
  \cup {JsonResponse(TRUE, FALSE, <<>>, c) : c \in Contents}
  \cup {JsonResponse(FALSE, FALSE, <<>>, NoContent)}
  \cup {StreamResponse(ls) : ls \in Streams}

\* The responses the providers of a batch answer with: an image in
\* message.images, a link in the text, and text alone.
BatchResponses ==
  {JsonResponse(TRUE, TRUE, <<ImageEntry("image_url", DataUrl("image/png", Base64Encode(<<7>>)))>>, NoContent),
   JsonResponse(TRUE, FALSE, <<>>, StringContent(<<PlainTok, UrlTok(ImageLink)>>)),
   JsonResponse(TRUE, FALSE, <<>>, StringContent(<<PlainTok>>))}

\* Nothing was written; nothing was resolved.
NoFile == [written |-> FALSE, bytes |-> <<>>]
Unresolved == [kind |-> "idle", bytes |-> <<>>, url |-> "", consulted |-> {}]

\* ------------------------------------------------- single job: values
\* A model identifier is a sequence of pieces; a piece is a family token
\* in some spelling, or other text.
DefaultNanoBanana == <<"google/", "gemini", "-3-pro-image-preview">>
modelSeedream == <<"bytedance-seed/", "seedream", "-4.5">>
modelGlmImage == <<"glm-image">>
\* process.env.GEMINI_MODEL || "google/gemini-3-pro-image-preview"
NanoBananaModels ==
  {DefaultNanoBanana,
   <<"google/", "Gemini", "-3-Pro-Image">>,
   <<"nano-banana", "-pro">>,
   <<"vendor/", "Nano-Banana", "-2">>,
   <<"openai/", "gpt-image-1">>}

\* model.includes(token)
Includes(m, token) == \E i \in 1..Len(m) : m[i] = token

\* model.includes('gemini') || model.includes('nano-banana')
HasFamilyToken(m) == Includes(m, "gemini") \/ Includes(m, "nano-banana")

\* The tools of the server that run one job.
GenerationTools == {"generate_image_nano", "generate_image_seedream", "generate_image_glm"}
EditTools == {"edit_image_nano", "edit_image_seedream"}
FnOf(tool) ==
  IF tool \in EditTools THEN "editImage"
  ELSE IF tool = "generate_image_glm" THEN "generateImageGlm"
  ELSE "generateImage"
ModelOf(tool, envModel) ==
  IF tool \in {"generate_image_nano", "edit_image_nano"} THEN envModel
  ELSE IF tool = "generate_image_glm" THEN modelGlmImage
  ELSE modelSeedream
\* const imageConfig = { image_size: image_size || '2K' } in the nano tools;
\* the other tools pass none.
ImageConfigOf(tool, size) ==
  IF tool \in {"generate_image_nano", "edit_image_nano"}
    THEN (IF Truthy(size) THEN size ELSE "2K")
    ELSE "none"

\* The image files of the disk: one that exists and one that does not.
SourceFile == "photo.jpg"
MissingFile == "gone.jpg"
SourceBytes == <<7, 200>>

NoRequest == [built |-> FALSE, model |-> <<>>, prompt |-> Absent,
              source |-> <<>>, image_config |-> "none"]
\* const requestBody = {...}; requestBody.image_config = imageConfig || { image_size: '1K' }
BuildRequest(model, prompt, source, imageConfig) ==
  [built |-> TRUE, model |-> model, prompt |-> prompt, source |-> source,
   image_config |-> IF HasFamilyToken(model)
                      THEN (IF imageConfig # "none" THEN imageConfig ELSE "1K")
                      ELSE "none"]
\* The body of the request of generateImageGlm.
BuildGlmRequest(prompt) ==
  [built |-> TRUE, model |-> modelGlmImage, prompt |-> prompt, source |-> <<>>,
   image_config |-> "none"]

ProviderUrl == "provider"

NoJobError == [msg |-> Absent, status |-> 0, body |-> ""]
JobError(msg, code, body) == [msg |-> msg, status |-> code, body |-> body]
NoJobResult == [success |-> FALSE, error |-> NoJobError, filePath |-> Absent]
JobFailure(err) == [success |-> FALSE, error |-> err, filePath |-> Absent]
JobSuccess == [success |-> TRUE, error |-> NoJobError, filePath |-> "saved"]

IdleJob ==
  [pc |-> "idle", tool |-> "", fn |-> "", prompt |-> Absent, imagePath |-> Absent,
   model |-> <<>>, imageConfig |-> "none", request |-> NoRequest, fetches |-> <<>>,
   httpStatus |-> 0, body |-> "", buf |-> <<>>, file |-> NoFile, result |-> NoJobResult]

\* A test that takes every status below 500 for a success (a mutant of
\* ResponseOk).
ResponseOkBelow500(code) == code < 500

\* A test that takes every status for a success (a mutant of ResponseOk).
ResponseOkAlways(code) == TRUE

\* response.ok
ResponseOk(code) == code \in 200..299

HttpStatuses == {200, 429, 500}
ErrorBodies == {"quota exceeded", ""}

\* ----------------------------------------------------- editImage: resolver
\* Lines 525-535: the text scan of editImage runs on a text that is not empty.
TextScanEdit(acc) == IF acc.fullContent # <<>> THEN TextScan(acc) ELSE acc

\* Lines 482-535: the locals of editImage after the response text was
\* examined; a text that does not parse is only logged.
ExamineEdit(r) ==
  TextScanEdit(IF r.parses THEN ResolveJson(r, ResolverLocals) ELSE ResolverLocals)

\* Lines 537-552 of editImage.
ResolveImageEdit(r) ==
  LET acc == ExamineEdit(r)
  IN IF acc.imageBase64 # <<>>
       THEN [kind |-> "bytes", bytes |-> Base64Decode(acc.imageBase64),
             url |-> "", consulted |-> acc.consulted]
       ELSE IF acc.imageUrl # ""
         THEN [kind |-> "fetch", bytes |-> <<>>, url |-> acc.imageUrl,
               consulted |-> acc.consulted \cup {"fetch"}]
         ELSE [kind |-> "none", bytes |-> <<>>, url |-> "",
               consulted |-> acc.consulted]

\* The responses a single job is answered with.
JobResponses == {r \in Responses : Len(r.images) <= 1 /\ Len(r.lines) <= 1}

\* ------------------------------------------------------------------ Init

Init ==
  /\ status = "idle"
  /\ batchRequests = ArrayArg(<<>>)
  /\ concurrency = DefaultConcurrency
  /\ provider = "chat"
  /\ queue = <<>>
  /\ results = <<>>
  /\ workers = <<>>
  /\ claimed = <<>>
  /\ netCalls = <<>>
  /\ files = <<>>
  /\ responseText = JsonResponse(FALSE, FALSE, <<>>, NoContent)
  /\ resolved = Unresolved
  /\ job = IdleJob

\* ------------------------------------------------------- batch: actions
\* concurrency || 3 in the tool handler; concurrency = 3 as default parameter
EffectiveConcurrency(viaTool, given, c) ==
  IF ~given THEN DefaultConcurrency
  ELSE IF viaTool /\ c = 0 THEN DefaultConcurrency
  ELSE c

\* An argument check that lets the empty list through (the mutant of
\* BadArguments).
BadArgumentsUnlessEmpty(reqs) == ~reqs.isArray

\* !Array.isArray(batchRequests) || batchRequests.length === 0
BadArguments(reqs) == ~reqs.isArray \/ Len(reqs.items) = 0

\* A call of generateImageBatch / generateImageGlmBatch, directly or by the
\* tool handler, up to the first await of its workers.
CallBatch ==
  /\ status = "idle"
  /\ \E prov \in {"chat", "glm"}, viaTool \in BOOLEAN, argGiven \in BOOLEAN,
        arg \in RequestArgs, cGiven \in BOOLEAN, c \in ConcurrencyArgs :
       LET reqs == IF argGiven THEN arg ELSE ArrayArg(<<>>)
           n == Len(reqs.items)
           S0 == [queue |-> [i \in 1..n |-> i], results |-> <<>>,
                  claimed |-> [i \in 1..n |-> 0],
                  netCalls |-> [i \in 1..n |-> 0], workers |-> <<>>]
           ceff == EffectiveConcurrency(viaTool, cGiven, c)
       IN /\ provider' = prov
          /\ batchRequests' = reqs
          /\ concurrency' = ceff
          /\ IF BadArguments(reqs)
               \* throw new Error('缺少批量请求列表...')
               THEN /\ status' = "raised"
                    /\ UNCHANGED <<queue, results, workers, claimed, netCalls, files>>
               ELSE /\ Publish(StartWorkers(S0, 1, PoolSize(ceff, n), reqs.items))
                    /\ files' = [i \in 1..n |-> NoFile]
  /\ UNCHANGED <<responseText, resolved, job>>

\* The job of worker w ends with result r.
JobEnds(w, r) ==
  /\ Publish(FinishJob(Shared, w, r, batchRequests.items))
  /\ UNCHANGED files

\* Worker w goes on to its next await.
JobAwaits(w, pc, buf, url, calls) ==
  /\ workers' = [workers EXCEPT ![w] = Awaiting(pc, workers[w].job, buf, url)]
  /\ netCalls' = [netCalls EXCEPT ![workers[w].job] = @ + calls]
  /\ UNCHANGED <<status, queue, results, claimed, files>>

\* generateImage, lines 88-241: the provider's answer arrives.
ChatResponds(w) ==
  LET j == workers[w].job
      e == batchRequests.items[j]
  IN \/ JobEnds(w, FailureResult("chat", j, e, Error("fetch failed", 0)))
     \/ JobEnds(w, FailureResult("chat", j, e, Error("API request failed", 500)))
     \/ \E r \in BatchResponses :
          LET img == ResolveImage(r)
          IN IF img.kind = "bytes" THEN JobAwaits(w, "write", img.bytes, "", 0)
             ELSE IF img.kind = "fetch" THEN JobAwaits(w, "download", <<>>, img.url, 1)
             ELSE JobEnds(w, FailureResult("chat", j, e, Error("no image found", 0)))

\* generateImageGlm, lines 285-316: the provider's answer arrives.
GlmResponds(w) ==
  LET j == workers[w].job
      e == batchRequests.items[j]
  IN \/ JobEnds(w, FailureResult("glm", j, e, Error("fetch failed", 0)))
     \/ JobEnds(w, FailureResult("glm", j, e, Error("Zhipu API request failed", 500)))
     \/ JobEnds(w, FailureResult("glm", j, e, Error("no image URL", 0)))
     \/ JobAwaits(w, "download", <<>>, ImageLink, 1)

ProviderResponds(w) ==
  /\ w \in 1..Len(workers)
  /\ workers[w].pc = "call"
  /\ IF provider = "chat" THEN ChatResponds(w) ELSE GlmResponds(w)
  /\ UNCHANGED <<batchRequests, concurrency, provider, responseText, resolved, job>>

\* The provider never answers the call of worker w.
Hang(w) ==
  /\ w \in 1..Len(workers)
  /\ workers[w].pc = "call"
  /\ workers' = [workers EXCEPT ![w].pc = "hung"]
  /\ UNCHANGED <<status, batchRequests, concurrency, provider, queue, results,
                 claimed, netCalls, files, responseText, resolved, job>>

\* await fetch(imageUrl) and imageResponse.buffer() end.
DownloadCompletes(w) ==
  /\ w \in 1..Len(workers)
  /\ workers[w].pc = "download"
  /\ LET j == workers[w].job
         e == batchRequests.items[j]
     IN \/ JobEnds(w, FailureResult(provider, j, e, Error("download failed", 404)))
        \/ JobAwaits(w, "write", RemoteImage(workers[w].url), "", 0)
  /\ UNCHANGED <<batchRequests, concurrency, provider, responseText, resolved, job>>

\* The directory check and await fs.writeFile(saveToFilePath, imageBuffer) end.
WriteCompletes(w) ==
  /\ w \in 1..Len(workers)
  /\ workers[w].pc = "write"
  /\ LET j == workers[w].job
         e == batchRequests.items[j]
     IN \/ /\ Publish(FinishJob(Shared, w, SuccessResult(provider, j, e),
                                batchRequests.items))
           /\ files' = [files EXCEPT ![j] = [written |-> TRUE, bytes |-> workers[w].buf]]
        \/ JobEnds(w, FailureResult(provider, j, e, Error("write failed", 0)))
  /\ UNCHANGED <<batchRequests, concurrency, provider, responseText, resolved, job>>

Next ==
  \/ CallBatch
  \/ \E w \in 1..MaxJobs : ProviderResponds(w)
  \/ \E w \in 1..MaxJobs : Hang(w)
  \/ \E w \in 1..MaxJobs : DownloadCompletes(w)
  \/ \E w \in 1..MaxJobs : WriteCompletes(w)

Spec == Init /\ [][Next]_vars

\* ---------------------------------------------------- resolver: actions
\* A 2xx response text arrives (line 103).
Receive ==
  /\ resolved.kind = "idle"
  /\ responseText = JsonResponse(FALSE, FALSE, <<>>, NoContent)
  /\ \E r \in Responses : responseText' = r
  /\ resolved' = [resolved EXCEPT !.kind = "pending"]
  /\ UNCHANGED <<batchVars, job>>

\* Lines 105-241 run on it.
Resolve ==
  /\ resolved.kind = "pending"
  /\ resolved' = ResolveImage(responseText)
  /\ UNCHANGED <<responseText>>
  /\ UNCHANGED <<batchVars, job>>

ResolverNext == Receive \/ Resolve

ResolverSpec == Init /\ [][ResolverNext]_vars

\* ---------------------------------------------------- single job: actions
\* A tool handler that calls the function whatever its arguments are (the
\* mutant of MissingArgument).
MissingArgumentNeverRaised(tool, prompt, path) == FALSE

\* if (!prompt) throw ... in the generation tools,
\* if (!imagePath || !editPrompt) throw ... in the edit tools
MissingArgument(tool, prompt, path) ==
  IF tool \in EditTools THEN ~Truthy(path) \/ ~Truthy(prompt) ELSE ~Truthy(prompt)

\* return { success: false, error: error.message, ... } / return { success: true, ... }
JobReturns(j, r) == [j EXCEPT !.pc = "done", !.result = r]

\* await fetch(API_CONFIG.chatApiUrl, { ..., body: JSON.stringify(requestBody) })
SendRequest(j, req) ==
  [j EXCEPT !.request = req, !.fetches = Append(@, ProviderUrl), !.pc = "call"]

\* The tool handler and the function it calls, up to the function's first await.
StartJob(tool, prompt, path, envModel, size) ==
  LET j0 == [IdleJob EXCEPT !.tool = tool, !.fn = FnOf(tool), !.prompt = prompt,
                            !.imagePath = path, !.model = ModelOf(tool, envModel),
                            !.imageConfig = ImageConfigOf(tool, size)]
  IN IF MissingArgument(tool, prompt, path) THEN [j0 EXCEPT !.pc = "raised"]
     ELSE IF j0.fn = "editImage" THEN [j0 EXCEPT !.pc = "read"]
     ELSE IF j0.fn = "generateImageGlm" THEN SendRequest(j0, BuildGlmRequest(prompt))
     ELSE SendRequest(j0, BuildRequest(j0.model, prompt, <<>>, j0.imageConfig))

\* A client calls one of the single-job tools.
CallTool ==
  /\ job.pc = "idle"
  /\ \E tool \in GenerationTools \cup EditTools, prompt \in {Absent, "", "cat"},
        envModel \in NanoBananaModels, size \in {Absent, "4K"} :
       \E path \in IF tool \in EditTools THEN {Absent, MissingFile, SourceFile}
                                        ELSE {Absent} :
         job' = StartJob(tool, prompt, path, envModel, size)
  /\ UNCHANGED <<batchVars, responseText, resolved>>

\* editImage: await fs.readFile(imagePath) ends.
SourceRead ==
  /\ job.pc = "read"
  /\ job' = IF job.imagePath = SourceFile
              THEN SendRequest(job, BuildRequest(job.model, job.prompt,
                                                 Base64Encode(SourceBytes),
                                                 job.imageConfig))
              ELSE JobReturns(job, JobFailure(JobError("cannot read the source image", 0, "")))
  /\ UNCHANGED <<batchVars, responseText, resolved>>

\* What the function resolves a 2xx response text to.
Resolver(fn, r) == IF fn = "editImage" THEN ResolveImageEdit(r) ELSE ResolveImage(r)

\* Lines 225-241 (537-552): decode, go and fetch, or throw.
AfterResolve(j, img) ==
  IF img.kind = "bytes" THEN [j EXCEPT !.buf = img.bytes, !.pc = "write"]
  ELSE IF img.kind = "fetch"
    THEN [j EXCEPT !.fetches = Append(@, img.url), !.pc = "download"]
  ELSE JobReturns(j, JobFailure(JobError("no image found, adjust the prompt", 0, "")))

\* The provider's answer to the request arrives, or the connection fails.
ProviderAnswers ==
  /\ job.pc = "call"
  /\ \/ /\ job' = JobReturns(job, JobFailure(JobError("fetch failed", 0, "")))
        /\ UNCHANGED <<responseText, resolved>>
     \/ \E code \in HttpStatuses, body \in ErrorBodies, r \in JobResponses,
           hasUrl \in BOOLEAN :
          LET j1 == [job EXCEPT !.httpStatus = code,
                                !.body = IF ResponseOk(code) THEN "" ELSE body]
          IN IF ~ResponseOk(code)
               \* throw new Error(`API 请求失败: ${response.status} - ${errorText}`)
               THEN /\ job' = JobReturns(j1, JobFailure(JobError("API request failed", j1.httpStatus, j1.body)))
                    /\ UNCHANGED <<responseText, resolved>>
               ELSE IF job.fn = "generateImageGlm"
                 THEN /\ job' = IF hasUrl
                                  THEN [j1 EXCEPT !.fetches = Append(@, ImageLink),
                                                  !.pc = "download"]
                                  ELSE JobReturns(j1, JobFailure(JobError("no image URL", 0, "")))
                      /\ UNCHANGED <<responseText, resolved>>
                 ELSE /\ responseText' = r
                      /\ resolved' = Resolver(job.fn, r)
                      /\ job' = AfterResolve(j1, Resolver(job.fn, r))
  /\ UNCHANGED batchVars

\* await fetch(imageUrl) and imageResponse.buffer() end.
ImageDownloaded ==
  /\ job.pc = "download"
  /\ \E code \in HttpStatuses :
       job' = IF ResponseOk(code)
                THEN [job EXCEPT !.buf = RemoteImage(job.fetches[Len(job.fetches)]),
                                 !.pc = "write"]
                ELSE JobReturns(job, JobFailure(JobError("download failed", code, "")))
  /\ UNCHANGED <<batchVars, responseText, resolved>>

\* The directory check and await fs.writeFile(saveToFilePath, imageBuffer) end.
ImageSaved ==
  /\ job.pc = "write"
  /\ \/ job' = JobReturns([job EXCEPT !.file = [written |-> TRUE, bytes |-> job.buf]],
                          JobSuccess)
     \/ job' = JobReturns(job, JobFailure(JobError("write failed", 0, "")))
  /\ UNCHANGED <<batchVars, responseText, resolved>>

JobNext == CallTool \/ SourceRead \/ ProviderAnswers \/ ImageDownloaded \/ ImageSaved

JobSpec == Init /\ [][JobNext]_vars

\* An event awaited by some worker happens.
Completion ==
  \E w \in 1..MaxJobs :
    ProviderResponds(w) \/ DownloadCompletes(w) \/ WriteCompletes(w)

\* While a worker awaits an event that can happen, one such event does
\* happen; a call that hangs is the one event that need not.
FairSpec == Spec /\ WF_vars(Completion)

\* ------------------------------------------------------------ vocabulary
N == Len(batchRequests.items)
Jobs == 1..N
Pool == 1..Len(workers)
ResultsOf(j) == {i \in 1..Len(results) : results[i].id = j}
HasResult(j) == ResultsOf(j) # {}
AllObjects == \A j \in Jobs : batchRequests.items[j].kind = "object"
LacksPrompt(j) == ~Truthy(batchRequests.items[j].prompt)
Called == status # "idle"
\* The workers whose call of the provider is out.
InFlight == {w \in Pool : workers[w].pc \in {"call", "hung"}}
\* The workers that have not ended.
Active == {w \in Pool : workers[w].pc \notin {"done", "threw"}}
HungJobs == {workers[w].job : w \in {v \in Pool : workers[v].pc = "hung"}}
PipelineFailure(r) == ~r.success /\ r.error.msg # "missing prompt"

\* ---------------------------------------------------------------- claims
\* C1: a batch of N >= 1 well-formed jobs run with concurrency >= 1 never
\* raises, never holds two results of one job, and returns a list of exactly
\* N results, one per submitted job.
C1_OneResultPerJob ==
  (Called /\ batchRequests.isArray /\ N >= 1 /\ AllObjects /\ concurrency >= 1)
    => /\ status # "raised"
       /\ \A j \in Jobs : Cardinality(ResultsOf(j)) <= 1
       /\ status = "returned"
            => /\ Len(results) = N
               /\ \A j \in Jobs : Cardinality(ResultsOf(j)) = 1

\* A batch of three jobs run by two workers has returned, some jobs having
\* succeeded and some having failed.
C1_Witness ==
  /\ status = "returned" /\ N = 3 /\ concurrency = 2 /\ AllObjects
  /\ \E i, k \in 1..Len(results) : results[i].success /\ PipelineFailure(results[k])

\* C2: a step in which the job of a worker fails inside the pipeline appends
\* a result with success = false and the error for that job, is not thrown
\* out of the worker, leaves the sibling workers as they are, and has the
\* worker take the next queued entry; and a batch that returns has a result
\* for every job.
C2_FailureIsIsolated ==
  [][\A w \in Pool :
       LET j == workers[w].job
           k == Len(results) + 1
       IN (/\ workers[w].pc \in {"call", "download", "write"}
           /\ Len(results') >= k
           /\ results'[k].id = j
           /\ ~results'[k].success)
          => /\ SubSeq(results', 1, Len(results)) = results
             /\ Truthy(results'[k].error.msg)
             /\ results'[k].prompt = batchRequests.items[j].prompt
             /\ Cardinality({i \in 1..Len(results') : results'[i].id = j}) = 1
             /\ ~(workers'[w].pc = "threw" /\ workers'[w].job = j)
             /\ (status' = "raised") => (status = "raised" \/ workers'[w].pc = "threw")
             /\ \A v \in Pool \ {w} : workers'[v] = workers[v]
             /\ queue # <<>> => claimed'[Head(queue)] = claimed[Head(queue)] + 1
             /\ (status' = "returned") =>
                  \A i \in Jobs : Cardinality({x \in 1..Len(results') : results'[x].id = i}) = 1
    ]_vars

\* A batch of three jobs has returned with a job that failed in the
\* pipeline and, after it in the list, a job that succeeded.
C2_Witness ==
  /\ status = "returned" /\ N = 3
  /\ \E i, k \in 1..Len(results) :
       i < k /\ PipelineFailure(results[i]) /\ results[k].success

\* C3: every entry taken from the queue that lacks its prompt (prompt empty,
\* prompt absent, or the entry being null) has a failing result and no
\* network call made for it.
C3_MissingPromptIsRecorded ==
  \A j \in Jobs :
    (claimed[j] >= 1 /\ LacksPrompt(j))
      => /\ netCalls[j] = 0
         /\ \E i \in ResultsOf(j) : ~results[i].success

\* C4: for every value of the concurrency argument a batch that returns
\* returns one result per submitted job, and the pool has
\* min(concurrency, jobs.length) workers.
C4_LengthForEveryConcurrency ==
  (status = "returned" /\ AllObjects)
    => /\ Len(results) = N
       /\ Len(workers) = Min(concurrency, N)

\* C5: no entry is taken from the queue twice, no two workers hold the same
\* job, and an entry still in the queue has not been taken.
C5_NoDoubleClaim ==
  Called /\ batchRequests.isArray /\ N >= 1
    => /\ \A j \in Jobs : claimed[j] <= 1
       /\ \A v, w \in Active : v # w => workers[v].job # workers[w].job
       /\ \A i \in 1..Len(queue) : claimed[queue[i]] = 0
       /\ \A j \in Jobs : Cardinality(ResultsOf(j)) <= claimed[j]

\* Two workers are awaiting the provider, each for a job of its own, and
\* the third job is still queued.
C5_Witness ==
  /\ N = 3 /\ Len(queue) = 1
  /\ \E v, w \in Pool :
       /\ v # w
       /\ workers[v].pc = "call" /\ workers[w].pc = "call"
       /\ workers[v].job # workers[w].job

\* C6: while a batch runs, the jobs whose provider call is in flight, and
\* the jobs in any stage of the pipeline, number at most min(concurrency, N).
C6_InFlightBounded ==
  Active # {}
    => /\ Cardinality(InFlight) <= Min(concurrency, N)
       /\ Cardinality(Active) <= Min(concurrency, N)

\* Three jobs were submitted with concurrency 2, and two provider calls
\* are in flight while the third job waits in the queue.
C6_Witness ==
  /\ N = 3 /\ concurrency = 2 /\ status = "running"
  /\ Cardinality({w \in Pool : workers[w].pc = "call"}) = 2
  /\ queue # <<>>

\* C7: when the batch call has returned, every worker has ended, the queue
\* is empty, no job is in flight and every job has its result in the list.
C7_ReturnsAfterJoin ==
  (status = "returned" /\ AllObjects)
    => /\ Joined(workers)
       /\ queue = <<>>
       /\ Active = {}
       /\ \A j \in Jobs : HasResult(j)

\* C8: with concurrency >= 2, while at most one provider call hangs, every
\* other job of the batch eventually has its result.
C8_HungCallBlocksOnlyItsWorker ==
  (status = "running" /\ concurrency >= 2 /\ AllObjects)
    ~> \/ Cardinality(HungJobs) >= 2
       \/ \A j \in Jobs : HasResult(j) \/ j \in HungJobs

\* One provider call hangs, and the two other jobs of the batch have their
\* results.
C8_Witness ==
  /\ N = 3 /\ concurrency = 2 /\ AllObjects
  /\ Cardinality(HungJobs) = 1
  /\ \A j \in Jobs \ HungJobs : HasResult(j)
  /\ \E i \in 1..Len(results) : ~LacksPrompt(results[i].id)

\* C9: a call with an empty list, or with a value that is no list, raises
\* with no worker started, no entry taken, no request sent and no result.
C9_BadArgumentsRaiseFirst ==
  (Called /\ (~batchRequests.isArray \/ N = 0))
    => /\ status = "raised"
       /\ workers = <<>>
       /\ queue = <<>>
       /\ results = <<>>
       /\ \A j \in DOMAIN netCalls : netCalls[j] = 0
       /\ \A j \in DOMAIN claimed : claimed[j] = 0

\* The batch call was given an empty list and has raised.
C9_Witness ==
  status = "raised" /\ batchRequests = ArrayArg(<<>>)

\* ------------------------------------------------------ resolver: claims
\* An entry of message.images that is a base64 data-URL of an image.
IsDataUrlEntry(img) ==
  /\ img.type = "image_url"
  /\ img.url.scheme = "data"
  /\ img.url.mime \in {"image/png", "image/jpeg"}
  /\ img.url.payload # <<>>
DataUrlEntries == {i \in 1..Len(responseText.images) : IsDataUrlEntry(responseText.images[i])}
Resolved == resolved.kind \notin {"idle", "pending"}

\* C10: a JSON response whose message.images holds a base64 data-URL entry
\* resolves to the bytes that were encoded into such an entry, and neither
\* the content parts, nor the text scan, nor a fetch is consulted.
C10_ImageListRoundTrip ==
  (/\ Resolved
   /\ responseText.parses /\ responseText.hasMessage /\ responseText.hasImages
   /\ DataUrlEntries # {})
    => /\ resolved.kind = "bytes"
       /\ \E i \in DataUrlEntries : \E b \in Bytes :
            /\ responseText.images[i].url.payload = Base64Encode(b)
            /\ resolved.bytes = b
       /\ resolved.consulted \cap {"parts", "textscan", "fetch", "stream"} = {}

\* A response with a two-byte image in message.images and another image in
\* its content parts was resolved to the image of the list.
C10_Witness ==
  /\ Resolved
  /\ Len(responseText.images) = 1 /\ DataUrlEntries = {1}
  /\ responseText.content.kind = "array"
  /\ \E k \in 1..Len(responseText.content.parts) :
       responseText.content.parts[k].type = "image"
  /\ Len(resolved.bytes) = 2
  /\ Base64Encode(resolved.bytes) = responseText.images[1].url.payload

\* The locals of the resolver after it examined the response text.
Examined == Examine(responseText)

\* The inline images of a content value, in the order of its parts.
RECURSIVE InlineImagesOf(_)
InlineImagesOf(parts) ==
  IF parts = <<>> THEN <<>>
  ELSE (IF Head(parts).type = "image" /\ Head(parts).inline
          THEN <<Head(parts).data>> ELSE <<>>)
       \o InlineImagesOf(Tail(parts))

\* The text of a content value, in the order of its parts.
RECURSIVE TextOfParts(_)
TextOfParts(parts) ==
  IF parts = <<>> THEN <<>>
  ELSE (IF Head(parts).type = "text" THEN Head(parts).text ELSE <<>>)
       \o TextOfParts(Tail(parts))

ImagesOfContent(c) == IF c.kind = "array" THEN InlineImagesOf(c.parts) ELSE <<>>
TextOfContent(c) ==
  IF c.kind = "array" THEN TextOfParts(c.parts)
  ELSE IF c.kind = "string" THEN c.text ELSE <<>>

\* A line of an event stream that is a data frame carrying a JSON fragment
\* with a choice.
IsFrame(line) == line.data /\ ~line.done /\ line.valid /\ line.choice

\* The inline images and the text of the frames of a stream, in document order.
RECURSIVE StreamImages(_)
StreamImages(lines) ==
  IF lines = <<>> THEN <<>>
  ELSE (IF IsFrame(Head(lines))
          THEN ImagesOfContent(Head(lines).delta) \o ImagesOfContent(Head(lines).message)
          ELSE <<>>)
       \o StreamImages(Tail(lines))

RECURSIVE StreamText(_)
StreamText(lines) ==
  IF lines = <<>> THEN <<>>
  ELSE (IF IsFrame(Head(lines))
          THEN TextOfContent(Head(lines).delta) \o TextOfContent(Head(lines).message)
          ELSE <<>>)
       \o StreamText(Tail(lines))

FirstDataUrlEntry == CHOOSE i \in DataUrlEntries : \A k \in DataUrlEntries : i <= k
HasMessage == responseText.parses /\ responseText.hasMessage
ImageListMatches == HasMessage /\ responseText.hasImages /\ DataUrlEntries # {}

\* C11: when the strategy that matches finds several images (data-URL
\* entries of message.images, inline parts of the content array, inline
\* images of the frames of a stream), the resolved image is the first of
\* them in document order.
C11_FirstImageWins ==
  Resolved =>
    /\ ImageListMatches
         => resolved.bytes =
              Base64Decode(responseText.images[FirstDataUrlEntry].url.payload)
    /\ (HasMessage /\ ~ImageListMatches /\ ImagesOfContent(responseText.content) # <<>>)
         => resolved.bytes = Base64Decode(ImagesOfContent(responseText.content)[1])
    /\ (~responseText.parses /\ StreamImages(responseText.lines) # <<>>)
         => resolved.bytes = Base64Decode(StreamImages(responseText.lines)[1])

\* C12: when the text scan runs on a text that holds an image URL, the URL
\* wins: the image is fetched from that URL, also when the text holds a
\* data-URL as well.
C12_UrlPatternWins ==
  (Resolved /\ "textscan" \in resolved.consulted
     /\ FirstImageUrl(Examined.fullContent) # "")
    => /\ resolved.kind = "fetch"
       /\ resolved.url = FirstImageUrl(Examined.fullContent)

\* C13: a response that is an event stream is resolved from its data frames
\* in order: lines without the data: prefix, the [DONE] frame and frames
\* that hold no choice add nothing and raise nothing, the text parts of the
\* frames are accumulated in order, and an inline image carried by a frame's
\* delta or message content is what the response resolves to.
C13_StreamIsResolved ==
  (Resolved /\ ~responseText.parses)
    => /\ "stream" \in resolved.consulted
       /\ Examined.fullContent = StreamText(responseText.lines)
       /\ StreamImages(responseText.lines) # <<>>
            => /\ resolved.kind = "bytes"
               /\ \E i \in 1..Len(StreamImages(responseText.lines)) :
                    resolved.bytes = Base64Decode(StreamImages(responseText.lines)[i])
       /\ StreamImages(responseText.lines) = <<>>
            => /\ "textscan" \in resolved.consulted
               /\ (resolved.kind = "none") <=>
                    (/\ FirstImageUrl(StreamText(responseText.lines)) = ""
                     /\ FirstDataUrl(StreamText(responseText.lines)) = <<>>)

\* A stream of a [DONE] frame and a frame whose delta holds text and a
\* two-byte inline image was resolved to that image.
C13_Witness ==
  /\ Resolved /\ ~responseText.parses
  /\ Len(responseText.lines) = 2
  /\ responseText.lines[1].done
  /\ IsFrame(responseText.lines[2])
  /\ TextOfContent(responseText.lines[2].delta) # <<>>
  /\ ImagesOfContent(responseText.lines[2].delta) = <<Base64Encode(<<200, 200>>)>>
  /\ resolved.kind = "bytes" /\ resolved.bytes = <<200, 200>>

\* ------------------------------------------------- batch: result shape
\* C15: every result of a batch run has the fields success, prompt and
\* model, with filePath when success is true and error when it is false.
C15_ResultShape ==
  \A i \in 1..Len(results) :
    /\ results[i].success \in BOOLEAN
    /\ ~LacksPrompt(results[i].id)
         => results[i].prompt = batchRequests.items[results[i].id].prompt
    /\ results[i].model # Absent
    /\ results[i].success => results[i].filePath # Absent
    /\ ~results[i].success => results[i].error.msg # Absent

\* ---------------------------------------------------- single job: claims
Conversational == job.fn \in {"generateImage", "editImage"}
\* A 2xx response text was handed to the resolver of the job.
ResponseArrived == resolved.kind # "idle"
HasTok(text, kind) == \E i \in 1..Len(text) : text[i].t = kind
\* The text a response carries: its message content, or the text of its frames.
TextOfResponse ==
  IF responseText.parses
    THEN (IF responseText.hasMessage THEN TextOfContent(responseText.content) ELSE <<>>)
    ELSE StreamText(responseText.lines)
\* The response text holds only explanatory text.
OnlyText ==
  /\ responseText.images = <<>>
  /\ ImagesOfContent(responseText.content) = <<>>
  /\ StreamImages(responseText.lines) = <<>>
  /\ ~HasTok(TextOfResponse, "imgurl")
  /\ ~HasTok(TextOfResponse, "dataurl")

\* C14: a 2xx response that holds only explanatory text ends the job with a
\* failing result whose error is the no-image error that asks to adjust the
\* prompt; nothing is fetched, nothing is written and nothing is thrown out
\* of the job.
C14_OnlyTextIsNoImage ==
  (Conversational /\ ResponseArrived /\ OnlyText)
    => /\ resolved.kind = "none"
       /\ job.pc = "done"
       /\ ~job.result.success
       /\ job.result.error.msg = "no image found, adjust the prompt"
       /\ job.fetches = <<ProviderUrl>>
       /\ job.file = NoFile

\* generateImage was answered with a message whose content is a plain
\* sentence, and has returned the no-image failure.
C14_Witness ==
  /\ job.fn = "generateImage" /\ job.pc = "done"
  /\ responseText.parses /\ responseText.hasMessage
  /\ responseText.content = StringContent(<<PlainTok>>)
  /\ job.result.error.msg = "no image found, adjust the prompt"

\* C16: a generation whose prompt is empty or absent, and an edit whose
\* source image is absent or cannot be read, fail before any request is
\* built or sent: no network call is made for them and nothing is written.
C16_ValidationBeforeNetwork ==
  (/\ job.pc # "idle"
   /\ \/ job.tool \in GenerationTools /\ ~Truthy(job.prompt)
      \/ job.tool \in EditTools /\ job.imagePath # SourceFile)
    => /\ job.fetches = <<>>
       /\ ~job.request.built
       /\ job.file = NoFile
       /\ job.pc \in {"raised", "read", "done"}
       /\ job.pc = "done" => (~job.result.success /\ Truthy(job.result.error.msg))

\* generate_image_nano was called with an empty prompt and has raised.
C16_Witness ==
  /\ job.tool = "generate_image_nano" /\ job.prompt = ""
  /\ job.pc = "raised" /\ job.fetches = <<>>

\* String#toLowerCase, piece by piece.
Lower(piece) ==
  CASE piece = "Gemini" -> "gemini"
    [] piece = "Nano-Banana" -> "nano-banana"
    [] piece = "-3-Pro-Image" -> "-3-pro-image"
    [] OTHER -> piece
ToLowerCase(m) == [i \in 1..Len(m) |-> Lower(m[i])]

\* C17: the request of generateImage and of editImage carries image_config
\* exactly when the model identifier, compared without regard to case,
\* contains 'gemini' or 'nano-banana'.
C17_SizingHintIffFamily ==
  (Conversational /\ job.request.built)
    => ((job.request.image_config # "none")
          <=> \/ Includes(ToLowerCase(job.model), "gemini")
              \/ Includes(ToLowerCase(job.model), "nano-banana"))

\* C18: when the provider answers with a non-2xx status the job ends with a
\* failing result whose error carries the status code and the response
\* body; the resolver is not run, no image is downloaded and nothing is
\* written.
C18_TransportErrorEndsTheJob ==
  (job.httpStatus # 0 /\ job.httpStatus \notin 200..299)
    => /\ job.pc = "done"
       /\ ~job.result.success
       /\ job.result.error.status = job.httpStatus
       /\ job.result.error.body = job.body
       /\ resolved = Unresolved
       /\ job.fetches = <<ProviderUrl>>
       /\ job.buf = <<>>
       /\ job.file = NoFile

\* editImage was answered with status 429 and a body, and has returned a
\* failure that carries both.
C18_Witness ==
  /\ job.fn = "editImage" /\ job.pc = "done"
  /\ job.httpStatus = 429 /\ job.body = "quota exceeded"
  /\ job.result.error = JobError("API request failed", 429, "quota exceeded")

\* The first image URL embedded in the text of the response.
EmbeddedUrl ==
  LET text == TextOfResponse
      i == CHOOSE k \in 1..Len(text) :
             text[k].t = "imgurl" /\ \A m \in 1..(k - 1) : text[m].t # "imgurl"
  IN text[i].url
\* The response carries image data itself: a data-URL entry of the image
\* list, an inline part, or a data-URL in its text.
HasInlineImage ==
  \/ DataUrlEntries # {}
  \/ ImagesOfContent(responseText.content) # <<>>
  \/ StreamImages(responseText.lines) # <<>>
  \/ HasTok(TextOfResponse, "dataurl")

\* C19: when the response of generateImage is text that embeds an image URL
\* and carries no inline image, exactly one fetch follows the provider call,
\* for that URL, and the image of the job is what that fetch returns; and a
\* conversational job issues a follow-up fetch in no other case.
C19_OneFetchForTheEmbeddedUrl ==
  /\ (/\ job.fn = "generateImage" /\ ResponseArrived
      /\ HasTok(TextOfResponse, "imgurl") /\ ~HasInlineImage)
       => /\ job.fetches = <<ProviderUrl, EmbeddedUrl>>
          /\ job.pc = "write" => job.buf = RemoteImage(EmbeddedUrl)
          /\ job.result.success
               => job.file = [written |-> TRUE, bytes |-> RemoteImage(EmbeddedUrl)]
  /\ (Conversational /\ Len(job.fetches) >= 2)
       => /\ Len(job.fetches) = 2
          /\ ResponseArrived
          /\ HasTok(TextOfResponse, "imgurl") /\ ~HasInlineImage

\* generateImage was answered with a sentence that embeds a link, fetched
\* the link and saved the bytes the fetch returned.
C19_Witness ==
  /\ job.fn = "generateImage" /\ job.result.success
  /\ responseText.content = StringContent(<<PlainTok, UrlTok(ImageLink)>>)
  /\ job.fetches = <<ProviderUrl, ImageLink>>
  /\ job.file.bytes = RemoteImage(ImageLink)

\* The image the job obtained, from its resolved response or its download.
ObtainedImage ==
  IF job.fn = "generateImageGlm" THEN RemoteImage(ImageLink)
  ELSE IF resolved.kind = "bytes" THEN resolved.bytes
  ELSE RemoteImage(resolved.url)

\* C20: the steps of a job are ordered: a request is sent only once it is
\* built, a response is resolved only after a 2xx answer to that request,
\* and the file is written only after the image bytes were obtained; a job
\* that fails has written no file, and a job that succeeds has written the
\* obtained bytes to its filePath.
C20_StepsAreOrdered ==
  /\ job.fetches # <<>> => (job.request.built /\ job.fetches[1] = ProviderUrl)
  /\ ResponseArrived => (job.httpStatus \in 200..299 /\ job.fetches # <<>>)
  /\ Len(job.fetches) >= 2 => job.httpStatus \in 200..299
  /\ job.pc \in {"idle", "raised", "read", "call", "download", "write"}
       => job.file = NoFile
  /\ job.pc = "write"
       => /\ job.httpStatus \in 200..299
          /\ Conversational => resolved.kind \in {"bytes", "fetch"}
          /\ job.buf = ObtainedImage
  /\ (job.pc = "done" /\ ~job.result.success) => job.file = NoFile
  /\ (job.pc = "done" /\ job.result.success)
       => /\ job.result.filePath # Absent
          /\ job.file = [written |-> TRUE, bytes |-> ObtainedImage]
          /\ job.httpStatus \in 200..299

\* A job whose response held a link has downloaded the image and written it;
\* its result has success = true.
C20_Witness ==
  /\ job.pc = "done" /\ job.result.success
  /\ Len(job.fetches) = 2
  /\ job.file.written /\ job.file.bytes = <<200, 7>>

\* ------------------------------------------- generation and edit resolvers
\* C21: generateImage and editImage resolve every response text alike: the
\* same image bytes, the same URL to fetch, or no image for both.
C21_ResolversAgree ==
  Resolved
    => LET edit == ResolveImageEdit(responseText)
       IN /\ edit.kind = resolved.kind
          /\ edit.bytes = resolved.bytes
          /\ edit.url = resolved.url

\* ------------------------------------------------------ batch: termination
\* C22: a batch of job objects run with concurrency >= 1 in which no call
\* hangs eventually returns, every submitted job having been taken from the
\* queue and having its result.
C22_BatchTerminates ==
  (Called /\ batchRequests.isArray /\ N >= 1 /\ concurrency >= 1 /\ AllObjects)
    ~> \/ HungJobs # {}
       \/ /\ status = "returned"
          /\ queue = <<>>
          /\ \A j \in Jobs : claimed[j] = 1 /\ HasResult(j)

\* A batch of three jobs with prompts, run by one worker, has returned with
\* a provider call made for every job.
C22_Witness ==
  /\ status = "returned" /\ N = 3 /\ concurrency = 1 /\ HungJobs = {}
  /\ \A j \in Jobs : netCalls[j] >= 1 /\ HasResult(j)

\* --------------------------------------------------- stream: broken frames
\* A data frame whose payload is not valid JSON.
IsBrokenFrame(line) == line.data /\ ~line.done /\ ~line.valid
BrokenFrames ==
  {i \in 1..Len(responseText.lines) : IsBrokenFrame(responseText.lines[i])}
RECURSIVE WithoutBrokenFrames(_)
WithoutBrokenFrames(lines) ==
  IF lines = <<>> THEN <<>>
  ELSE (IF IsBrokenFrame(Head(lines)) THEN <<>> ELSE <<Head(lines)>>)
       \o WithoutBrokenFrames(Tail(lines))

\* C23: in the event-stream fallback a data frame that is not valid JSON is
\* skipped: the stream resolves as it would without that frame, the text and
\* the inline image of the earlier frames kept and the later frames read.
C23_BrokenFrameIsSkipped ==
  (Resolved /\ ~responseText.parses /\ BrokenFrames # {})
    => LET rest == StreamResponse(WithoutBrokenFrames(responseText.lines))
       IN /\ Examined.fullContent = Examine(rest).fullContent
          /\ Examined.fullContent = StreamText(responseText.lines)
          /\ resolved.kind = ResolveImage(rest).kind
          /\ resolved.bytes = ResolveImage(rest).bytes
          /\ resolved.url = ResolveImage(rest).url
          /\ StreamImages(responseText.lines) # <<>> => resolved.kind = "bytes"

\* A stream of a frame that holds text and an inline image, followed by a
\* broken frame, was resolved to that image.
C23_Witness ==
  /\ Resolved /\ ~responseText.parses
  /\ Len(responseText.lines) = 2
  /\ IsFrame(responseText.lines[1])
  /\ TextOfContent(responseText.lines[1].delta) # <<>>
  /\ ImagesOfContent(responseText.lines[1].delta) # <<>>
  /\ IsBrokenFrame(responseText.lines[2])
  /\ resolved.kind = "bytes"
  /\ Base64Encode(resolved.bytes) = ImagesOfContent(responseText.lines[1].delta)[1]

====
